---- MODULE Spec2Model ----
(***************************************************************************)
(* A model of js/app.js (AI Daily Pulse front end): the theme manager, the *)
(* data loader, the six category renderers, the chart adapters, the sort   *)
(* controller and main.                                                    *)
(*                                                                         *)
(* JavaScript values are tagged records; a JavaScript string is a sequence *)
(* of one-character strings, so that escHtml, String() and localeCompare   *)
(* are computed character by character.  Non-ASCII literals of the source  *)
(* (glyphs, Chinese labels) are written as ASCII names of the literal.     *)
(***************************************************************************)
EXTENDS Integers, Sequences, FiniteSets, TLC

(***************************************************************************)
(* JavaScript values                                                       *)
(***************************************************************************)
Undef == [t |-> "undefined"]
Null == [t |-> "null"]
Str(s) == [t |-> "string", v |-> s]
Num(n) == [t |-> "number", v |-> n]
Arr(s) == [t |-> "array", v |-> s]

\* x is null or undefined (what ?. and ?? test)
Nullish(x) == x.t \in {"undefined", "null"}

\* ToBoolean(x), as used by ||, ! and ?:
Truthy(x) ==
  CASE x.t = "undefined" -> FALSE
    [] x.t = "null" -> FALSE
    [] x.t = "string" -> Len(x.v) > 0
    [] x.t = "number" -> x.v # 0
    [] OTHER -> TRUE

\* x || d
Or(x, d) == IF Truthy(x) THEN x ELSE d

DigitChars == <<"0", "1", "2", "3", "4", "5", "6", "7", "8", "9">>

RECURSIVE NatDigits(_)
NatDigits(n) ==
  IF n < 10 THEN <<DigitChars[n + 1]>>
  ELSE NatDigits(n \div 10) \o <<DigitChars[(n % 10) + 1]>>

\* the decimal text of an integer
Digits(n) == IF n < 0 THEN <<"-">> \o NatDigits(0 - n) ELSE NatDigits(n)

RECURSIVE JoinStr(_, _)
\* String(x): the text a template literal or String() gives for x
RECURSIVE ToStr(_)
ToStr(x) ==
  CASE x.t = "string" -> x.v
    [] x.t = "number" -> Digits(x.v)
    [] x.t = "undefined" -> <<"u", "n", "d", "e", "f", "i", "n", "e", "d">>
    [] x.t = "null" -> <<"n", "u", "l", "l">>
    [] x.t = "array" -> JoinStr(x.v, <<",">>)
    [] OTHER -> <<"[", "o", "b", "j", "e", "c", "t", " ", "O", "b", "j", "e", "c", "t", "]">>

\* Array.prototype.join: null and undefined elements give the empty text
JoinStr(s, sep) ==
  IF Len(s) = 0 THEN <<>>
  ELSE LET h == IF Nullish(Head(s)) THEN <<>> ELSE ToStr(Head(s))
       IN IF Len(s) = 1 THEN h ELSE h \o sep \o JoinStr(Tail(s), sep)

IsDigit(c) == \E i \in 1..10 : DigitChars[i] = c

DigitValue(c) == (CHOOSE i \in 1..10 : DigitChars[i] = c) - 1

RECURSIVE DigitsValue(_)
DigitsValue(s) ==
  IF Len(s) = 0 THEN 0
  ELSE DigitsValue(SubSeq(s, 1, Len(s) - 1)) * 10 + DigitValue(s[Len(s)])

\* ToNumber(x): [nan |-> TRUE] or [nan |-> FALSE, n |-> the number].  Texts are
\* numeric when empty (0) or all digits.
ToNumber(x) ==
  CASE x.t = "number" -> [nan |-> FALSE, n |-> x.v]
    [] x.t = "null" -> [nan |-> FALSE, n |-> 0]
    [] x.t = "string" ->
         IF \A i \in 1..Len(x.v) : IsDigit(x.v[i])
         THEN [nan |-> FALSE, n |-> DigitsValue(x.v)]
         ELSE [nan |-> TRUE, n |-> 0]
    [] OTHER -> [nan |-> TRUE, n |-> 0]

(***************************************************************************)
(* Formatters                                                              *)
(***************************************************************************)

\* (n / d).toFixed(1) for a non-negative integer n: one decimal, rounded to
\* nearest (exact for the values that are not a tie in binary floating point)
ToFixed1(n, d) ==
  LET q == (n * 10 + d \div 2) \div d
  IN Digits(q \div 10) \o <<".">> \o Digits(q % 10)

\* formatNumber(n): the text shown for a metric
FormatNumber(n) ==
  LET num == ToNumber(n)
  IN IF ~num.nan /\ num.n >= 1000000 THEN ToFixed1(num.n, 1000000) \o <<"M">>
     ELSE IF ~num.nan /\ num.n >= 1000 THEN ToFixed1(num.n, 1000) \o <<"k">>
     ELSE ToStr(n)

RECURSIVE ReplaceAll(_, _, _)
\* String.prototype.replace(/c/g, rep) on a text
ReplaceAll(s, c, rep) ==
  IF Len(s) = 0 THEN <<>>
  ELSE (IF Head(s) = c THEN rep ELSE <<Head(s)>>) \o ReplaceAll(Tail(s), c, rep)

\* escHtml(str): String(str) with & < > " replaced, in that order
EscHtml(str) ==
  LET s0 == ToStr(str)
      s1 == ReplaceAll(s0, "&", <<"&", "a", "m", "p", ";">>)
      s2 == ReplaceAll(s1, "<", <<"&", "l", "t", ";">>)
      s3 == ReplaceAll(s2, ">", <<"&", "g", "t", ";">>)
  IN ReplaceAll(s3, "\"", <<"&", "q", "u", "o", "t", ";">>)

\* The day on which the page runs (new Date() in formatDate), as a day number.
\* A date text of the payload is modelled as the decimal text of its day
\* number (fixed width, so text order is date order, as for ISO-8601 texts).
Now == 9

\* new Date(dateStr).getTime(): NaN unless the text is a date
ParseDate(x) ==
  IF x.t = "string" /\ Len(x.v) > 0 /\ \A i \in 1..Len(x.v) : IsDigit(x.v[i])
  THEN [nan |-> FALSE, n |-> DigitsValue(x.v)]
  ELSE IF x.t = "number" THEN [nan |-> FALSE, n |-> x.v]
  ELSE [nan |-> TRUE, n |-> 0]

\* formatDate(dateStr): "" for a missing date, the value itself when it is no
\* date, else the relative label ("today", "yesterday", "N days ago") or
\* the locale's month and day
FormatDate(dateStr) ==
  IF ~Truthy(dateStr) THEN Str(<<>>)
  ELSE LET d == ParseDate(dateStr)
           diff == Now - d.n
       IN IF d.nan THEN dateStr
          ELSE IF diff = 0 THEN Str(<<"today">>)
          ELSE IF diff = 1 THEN Str(<<"yesterday">>)
          ELSE IF diff < 7 THEN Str(Digits(diff) \o <<" days ago">>)
          ELSE Str(<<"month-day ">> \o Digits(d.n))

\* difficultyClass(difficulty): the CSS class of a difficulty label
\* ("rumen" = beginner, "jinjie" = intermediate, "gaoji" = advanced)
DifficultyClass(difficulty) ==
  IF difficulty.t = "string" /\ difficulty.v = <<"rumen">> THEN "beginner"
  ELSE IF difficulty.t = "string" /\ difficulty.v = <<"jinjie">> THEN "intermediate"
  ELSE IF difficulty.t = "string" /\ difficulty.v = <<"gaoji">> THEN "advanced"
  ELSE "beginner"

(***************************************************************************)
(* The page: elements, their content, and the renderers                    *)
(***************************************************************************)
VARIABLES
  present,      \* the ids of the elements the page's markup holds
  innerHTML,    \* card container id -> the elements rendered into it
  textContent,  \* text element id -> its text
  counters,     \* stat element id -> the setInterval of animateCounter on it
  fadeIn        \* card container id -> per element rendered into it: how many
                \* IntersectionObservers observe it, and how often the
                \* visibility callback has run for it

CardContainers ==
  {"news-cards", "tools-cards", "tips-cards", "arxiv-cards", "hf-cards", "github-cards"}

CountLabels ==
  {"news-count", "tools-count", "tips-count", "arxiv-count", "hf-count", "github-count"}

StatIds ==
  {"stat-news", "stat-tools", "stat-tips", "stat-github", "stat-hf", "stat-arxiv"}

TabCountIds ==
  {"tab-count-news", "tab-count-tools", "tab-count-tips", "tab-count-github",
   "tab-count-hf", "tab-count-arxiv"}

Canvases == {"trendChart", "pieChart", "tagChart"}

TextIds == CountLabels \cup StatIds \cup TabCountIds \cup {"lastUpdated", "themeToggle"}

AllTargets ==
  CardContainers \cup TextIds \cup Canvases \cup {"loadingOverlay"}

\* a === b
StrictEq(a, b) == a.t = b.t /\ a = b

\* one interpolation ${...} of a card template: the place and the text put there
Frag(slot, text) == [slot |-> slot, text |-> text]

\* cond ? `...${text}...` : ""
Opt(cond, slot, text) == IF cond THEN <<Frag(slot, text)>> ELSE <<>>

\* array.slice(0, n)
Slice(s, n) == SubSeq(s, 1, IF Len(s) < n THEN Len(s) ELSE n)

\* (x || []).slice(0, n).map(v => `<span ...>${escHtml(v)}</span>`).join("")
Badges(x, n, slot) ==
  LET s == Slice(Or(x, Arr(<<>>)).v, n)
  IN [i \in 1..Len(s) |-> Frag(slot, EscHtml(s[i]))]

\* data?.field ?? []
ItemsOf(data, field) ==
  IF Nullish(data) THEN <<>>
  ELSE IF Nullish(data[field]) THEN <<>>
  ELSE data[field].v

\* emptyState(icon, text): the placeholder element
EmptyState(icon, text) ==
  <<[class |-> "empty-state",
     frags |-> <<Frag("empty-state-icon", <<icon>>), Frag("empty-state-text", <<text>>)>>]>>

Card(frags) == [class |-> "content-card fade-in", frags |-> frags]

\* the text of a count label: "gong N <unit>"
CountText(n, unit) == <<"gong ">> \o Digits(n) \o <<unit>>

\* a count of observers or of callback runs: "none", "one", or "many" for
\* two and more
Succ(n) == IF n = "none" THEN "one" ELSE "many"

Sum(a, b) == IF a = "none" THEN b ELSE IF b = "none" THEN a ELSE "many"

\* an element just created: no observer observes it, no callback has run
Unobserved == [observers |-> "none", fired |-> "none"]

\* container.innerHTML = ...: the elements of the container are new ones
SetHTML(d, id, elems) ==
  [d EXCEPT !.innerHTML[id] = elems,
            !.fadeIn[id] = [i \in 1..Len(elems) |-> Unobserved]]

\* initScrollAnimations(): a new IntersectionObserver observes every element
\* of class fade-in in the document, those of earlier renders included
initScrollAnimations(d) ==
  [d EXCEPT !.fadeIn =
     [c \in CardContainers |->
        [i \in 1..Len(d.innerHTML[c]) |->
           IF d.innerHTML[c][i].class = "content-card fade-in"
           THEN [d.fadeIn[c][i] EXCEPT !.observers = Succ(@)]
           ELSE d.fadeIn[c][i]]]]

SetText(d, id, text) == [d EXCEPT !.textContent[id] = text]

Done(d) == [dom |-> d, threw |-> FALSE]

Thrown(d) == [dom |-> d, threw |-> TRUE]

\* The tail of every category renderer: the cards go into the container,
\* initScrollAnimations runs, then document.getElementById(label).textContent
\* is assigned, which is a TypeError when the label is absent.
WriteCards(d, container, label, cards, unit) ==
  LET d1 == initScrollAnimations(SetHTML(d, container, cards))
  IN IF label \in present
     THEN Done(SetText(d1, label, CountText(Len(cards), unit)))
     ELSE Thrown(d1)

NewsCard(a) ==
  Card(<<Frag("href", EscHtml(a.link)),
         Frag("title", EscHtml(a.title)),
         Frag("source", EscHtml(Or(a.source, Str(<<>>)))),
         Frag("date", EscHtml(FormatDate(a.published))),
         Frag("summary", EscHtml(Or(a.summary, Str(<<>>))))>>
       \o Opt(Truthy(a.category), "category", EscHtml(a.category))
       \o <<Frag("href", EscHtml(a.link))>>)

renderAINews(data, d) ==
  IF "news-cards" \notin present THEN Done(d)
  ELSE LET articles == ItemsOf(data, "articles")
       IN IF Len(articles) = 0
          THEN Done(SetHTML(d, "news-cards", EmptyState("newspaper", "no news data")))
          ELSE WriteCards(d, "news-cards", "news-count",
                          [i \in 1..Len(articles) |-> NewsCard(articles[i])],
                          " articles")

\* filter && filter !== "all" ? items.filter(t => t[field] === filter) : items
Filtered(items, field, filter) ==
  IF Truthy(filter) /\ ~StrictEq(filter, Str(<<"a", "l", "l">>))
  THEN SelectSeq(items, LAMBDA t : StrictEq(t[field], filter))
  ELSE items

ToolCard(t) ==
  Card(<<Frag("icon", EscHtml(Or(t.icon, Str(<<"wrench">>)))),
         Frag("name", EscHtml(t.name)),
         Frag("category", EscHtml(Or(t.category, Str(<<>>)))),
         Frag("difficulty-class", <<DifficultyClass(t.difficulty)>>),
         Frag("difficulty", EscHtml(Or(t.difficulty, Str(<<>>)))),
         Frag("description", EscHtml(Or(t.description, Str(<<>>)))),
         Frag("href", EscHtml(t.link))>>)

renderAITools(data, filter, d) ==
  IF "tools-cards" \notin present THEN Done(d)
  ELSE LET all == ItemsOf(data, "tools")
       IN IF Len(all) = 0
          THEN Done(SetHTML(d, "tools-cards", EmptyState("tools", "no tool data")))
          ELSE LET tools == Filtered(all, "category", filter)
               IN WriteCards(d, "tools-cards", "tools-count",
                             [i \in 1..Len(tools) |-> ToolCard(tools[i])],
                             " tools")

TipCard(t) ==
  Card(<<Frag("icon", EscHtml(Or(t.icon, Str(<<"bulb">>)))),
         Frag("title", EscHtml(t.title)),
         Frag("description", EscHtml(Or(t.description, Str(<<>>)))),
         Frag("category", EscHtml(Or(t.category, Str(<<>>)))),
         Frag("difficulty-class", <<DifficultyClass(t.difficulty)>>),
         Frag("difficulty", EscHtml(Or(t.difficulty, Str(<<>>))))>>
       \o Badges(t.tags, 3, "tag")
       \o Opt(Truthy(t.link), "href", EscHtml(t.link)))

renderDevTips(data, filter, d) ==
  IF "tips-cards" \notin present THEN Done(d)
  ELSE LET all == ItemsOf(data, "tips")
       IN IF Len(all) = 0
          THEN Done(SetHTML(d, "tips-cards", EmptyState("bolt", "no tip data")))
          ELSE LET tips == Filtered(all, "difficulty", filter)
               IN WriteCards(d, "tips-cards", "tips-count",
                             [i \in 1..Len(tips) |-> TipCard(tips[i])],
                             " tips")

PaperCard(p) ==
  Card(<<Frag("href", EscHtml(p.link)),
         Frag("title", EscHtml(p.title)),
         Frag("authors",
              EscHtml(Str(JoinStr(Slice(Or(p.authors, Arr(<<>>)).v, 3), <<",", " ">>))))>>
       \o Opt(~Nullish(p.authors) /\ Len(p.authors.v) > 3, "et-al", <<" deng">>)
       \o <<Frag("date", EscHtml(FormatDate(p.published))),
            Frag("summary", EscHtml(Or(p.summary, Str(<<>>))))>>
       \o Badges(p.categories, 3, "category")
       \o <<Frag("href", EscHtml(p.link))>>)

renderArxiv(data, d) ==
  IF "arxiv-cards" \notin present THEN Done(d)
  ELSE LET papers == ItemsOf(data, "papers")
       IN IF Len(papers) = 0
          THEN Done(SetHTML(d, "arxiv-cards", EmptyState("page", "no paper data")))
          ELSE WriteCards(d, "arxiv-cards", "arxiv-count",
                          [i \in 1..Len(papers) |-> PaperCard(papers[i])],
                          " papers")

ModelCard(m) ==
  Card(<<Frag("href", EscHtml(m.link)),
         Frag("name", EscHtml(m.name)),
         Frag("author", EscHtml(Or(m.author, Str(<<>>)))),
         Frag("date", EscHtml(FormatDate(m.updated)))>>
       \o Badges(m.tags, 4, "tag")
       \o <<Frag("downloads", FormatNumber(Or(m.downloads, Num(0)))),
            Frag("likes", FormatNumber(Or(m.likes, Num(0)))),
            Frag("href", EscHtml(m.link))>>)

renderHuggingFace(data, d) ==
  IF "hf-cards" \notin present THEN Done(d)
  ELSE LET models == ItemsOf(data, "models")
       IN IF Len(models) = 0
          THEN Done(SetHTML(d, "hf-cards", EmptyState("hugging-face", "no model data")))
          ELSE WriteCards(d, "hf-cards", "hf-count",
                          [i \in 1..Len(models) |-> ModelCard(models[i])],
                          " models")

\* langColors: the colour table of renderGithubTrending
LangColors ==
  <<<<<<"P", "y", "t", "h", "o", "n">>, "#3572A5">>,
     <<<<"J", "a", "v", "a", "S", "c", "r", "i", "p", "t">>, "#f1e05a">>,
     <<<<"T", "y", "p", "e", "S", "c", "r", "i", "p", "t">>, "#2b7489">>,
     <<<<"C", "+", "+">>, "#f34b7d">>,
     <<<<"G", "o">>, "#00ADD8">>,
     <<<<"R", "u", "s", "t">>, "#dea584">>,
     <<<<"J", "a", "v", "a">>, "#b07219">>,
     <<<<"C">>, "#555555">>,
     <<<<"C", "#">>, "#178600">>,
     <<<<"R", "u", "b", "y">>, "#701516">>>>

\* langColors[r.language] || "#8b949e"
LangColor(language) ==
  IF \E i \in 1..Len(LangColors) : StrictEq(language, Str(LangColors[i][1]))
  THEN LangColors[CHOOSE i \in 1..Len(LangColors) :
                    StrictEq(language, Str(LangColors[i][1]))][2]
  ELSE "#8b949e"

RepoCard(r) ==
  Card(<<Frag("href", EscHtml(r.link)),
         Frag("name", EscHtml(r.name)),
         Frag("description", EscHtml(Or(r.description, Str(<<>>))))>>
       \o Opt(Truthy(r.language), "lang-color", <<LangColor(r.language)>>)
       \o Opt(Truthy(r.language), "language", EscHtml(r.language))
       \o <<Frag("stars", FormatNumber(Or(r.stars, Num(0))))>>
       \o Opt(Truthy(r.stars_today), "stars_today", ToStr(r.stars_today))
       \o <<Frag("href", EscHtml(r.link))>>)

renderGithubTrending(data, d) ==
  IF "github-cards" \notin present THEN Done(d)
  ELSE LET repos == ItemsOf(data, "repositories")
       IN IF Len(repos) = 0
          THEN Done(SetHTML(d, "github-cards", EmptyState("laptop", "no repository data")))
          ELSE WriteCards(d, "github-cards", "github-count",
                          [i \in 1..Len(repos) |-> RepoCard(repos[i])],
                          " repositories")

\* renderUpdatedTime(dateStr): the "last updated" line
renderUpdatedTime(dateStr, d) ==
  IF ~Truthy(dateStr) THEN Done(d)
  ELSE IF "lastUpdated" \notin present THEN Done(d)
  ELSE IF ParseDate(dateStr).nan THEN Done(d)
  ELSE Done(SetText(d, "lastUpdated",
                    <<"datetime ">> \o Digits(ParseDate(dateStr).n) \o <<" CST">>))

\* Math.ceil(a / b) for a >= 0, b > 0
CeilDiv(a, b) == (a + b - 1) \div b

NoInterval == [active |-> FALSE, current |-> 0, step |-> 0, target |-> 0]

\* animateCounter(el, target): starts the interval that counts up to target
animateCounter(d, id, target) ==
  [d EXCEPT !.counters[id] =
     [active |-> TRUE, current |-> 0, step |-> CeilDiv(target, 30), target |-> target]]

\* one firing of the interval callback of animateCounter on element id
CounterCallback(d, id) ==
  LET c == d.counters[id]
      current == IF c.current + c.step < c.target THEN c.current + c.step ELSE c.target
  IN [d EXCEPT !.textContent[id] = Digits(current),
               !.counters[id] = [c EXCEPT !.current = current,
                                          !.active = ~(current >= c.target)]]

\* the stat element, the tab badge and the stats.counts key of each category
StatRows ==
  <<[stat |-> "stat-news", tab |-> "tab-count-news", key |-> "rss_news"],
    [stat |-> "stat-tools", tab |-> "tab-count-tools", key |-> "ai_tools"],
    [stat |-> "stat-tips", tab |-> "tab-count-tips", key |-> "dev_tips"],
    [stat |-> "stat-github", tab |-> "tab-count-github", key |-> "github_trending"],
    [stat |-> "stat-hf", tab |-> "tab-count-hf", key |-> "huggingface"],
    [stat |-> "stat-arxiv", tab |-> "tab-count-arxiv", key |-> "arxiv"]>>

\* counts.key ?? 0, with counts = stats.counts || {}
CountOf(stats, key) ==
  IF ~Truthy(stats.counts) THEN 0
  ELSE IF Nullish(stats.counts[key]) THEN 0
  ELSE stats.counts[key].v

RECURSIVE StatCards(_, _, _)
\* the first forEach of renderStats, from row i on
StatCards(stats, d, i) ==
  IF i > Len(StatRows) THEN d
  ELSE StatCards(stats,
                 IF StatRows[i].stat \in present
                 THEN animateCounter(d, StatRows[i].stat, CountOf(stats, StatRows[i].key))
                 ELSE d,
                 i + 1)

RECURSIVE TabBadges(_, _, _)
\* the second forEach of renderStats, from row i on
TabBadges(stats, d, i) ==
  IF i > Len(StatRows) THEN d
  ELSE TabBadges(stats,
                 IF StatRows[i].tab \in present
                 THEN SetText(d, StatRows[i].tab, Digits(CountOf(stats, StatRows[i].key)))
                 ELSE d,
                 i + 1)

renderStats(stats, d) ==
  IF ~Truthy(stats) THEN Done(d)
  ELSE Done(TabBadges(stats, StatCards(stats, d, 1), 1))

(***************************************************************************)
(* Theme manager                                                           *)
(***************************************************************************)
VARIABLES
  dataTheme,    \* documentElement's data-theme attribute ("none": not set)
  localTheme    \* localStorage[THEME_KEY] ("none": no such key)

\* the glyphs exchanged: the button shows the theme in force
GlyphOfTheme(theme) == IF theme = "dark" THEN <<"moon">> ELSE <<"sun">>

\* the glyph of the toggle button: the sun for dark, the moon otherwise
Glyph(theme) == IF theme = "dark" THEN <<"sun">> ELSE <<"moon">>

applyTheme(theme) ==
  /\ dataTheme' = theme
  /\ textContent' = IF "themeToggle" \in present
                    THEN [textContent EXCEPT !["themeToggle"] = Glyph(theme)]
                    ELSE textContent
  /\ localTheme' = theme

\* initTheme; prefersDark is what matchMedia("(prefers-color-scheme: dark)")
\* answers at the call
initTheme ==
  \E prefersDark \in BOOLEAN :
    LET saved == localTheme
        theme == IF saved # "none" THEN saved
                 ELSE IF prefersDark THEN "dark" ELSE "light"
    IN applyTheme(theme)

toggleTheme ==
  LET current == IF dataTheme = "none" THEN "light" ELSE dataTheme
  IN applyTheme(IF current = "dark" THEN "light" ELSE "dark")

(***************************************************************************)
(* Chart adapters                                                          *)
(***************************************************************************)
VARIABLES
  ChartDefined, \* typeof Chart !== "undefined": the charting library is loaded
  chartVar,     \* canvas id -> what trendChart / pieChart / tagChart holds:
                \* "undefined", "null", "live" (the newest instance drawn on
                \* the canvas) or "destroyed" (an instance already destroyed)
  drawn         \* canvas id -> the instances created on the canvas and not
                \* destroyed, oldest first

\* destroyChart without the call of destroy(): the instance stays drawn
destroyChartSkipped(cs, c) == cs

\* destroyChart(chart) for the variable of canvas c
destroyChart(cs, c) ==
  IF cs.chartVar[c] = "live"
  THEN [cs EXCEPT !.drawn[c] = SubSeq(@, 1, Len(@) - 1), !.chartVar[c] = "destroyed"]
  ELSE cs

\* new Chart(canvas, config) with the library loaded: the colours are those of
\* the data-theme attribute (theme) at creation time; by names the caller
NewChart(cs, c, by, theme) ==
  [cs EXCEPT !.drawn[c] = Append(@, [dark |-> theme = "dark", by |-> by]),
             !.chartVar[c] = "live"]

\* initTrendChart / initPieChart / initTagChart on canvas c; lib says whether
\* Chart is defined: without it, new Chart is a ReferenceError
InitChart(cs, c, by, lib, theme) ==
  IF c \notin present THEN [cs |-> cs, threw |-> FALSE]
  ELSE LET cs1 == destroyChart(cs, c)
       IN IF lib THEN [cs |-> NewChart(cs1, c, by, theme), threw |-> FALSE]
          ELSE [cs |-> cs1, threw |-> TRUE]

\* o, then the chart of canvas c unless o threw
ThenChart(o, c, by, lib, theme) ==
  IF o.threw THEN o ELSE InitChart(o.cs, c, by, lib, theme)

initCharts(cs, by, lib, theme) ==
  ThenChart(ThenChart(InitChart(cs, "trendChart", by, lib, theme),
                      "pieChart", by, lib, theme),
            "tagChart", by, lib, theme)

redrawCharts(cs, lib, theme) ==
  LET cs1 == destroyChart(destroyChart(destroyChart(cs, "trendChart"), "pieChart"),
                          "tagChart")
      cs2 == [cs1 EXCEPT !.chartVar = [c \in Canvases |-> "null"]]
  IN initCharts(cs2, "redrawCharts", lib, theme)

Charts == [chartVar |-> chartVar, drawn |-> drawn]

(***************************************************************************)
(* Data loader and main                                                    *)
(***************************************************************************)
VARIABLES
  pc,             \* where main is: "ready" (not yet called), "loading" (at the
                  \* await of Promise.all), "done" (returned)
  fetches,        \* position in the request list -> the loadJSON call there
  appData,        \* window.__appData
  overlayVisible, \* the loading overlay has the class "visible"
  clickBound,     \* the click listener of main is on the theme button
  readyListener,  \* the chartjs-ready listener of main is registered
  timers,         \* pending setTimeout(redrawCharts, 50) callbacks
  caught,         \* the catch block of main ran (console.error)
  themeHistory,   \* the (data-theme, stored theme) pairs found by the last
                  \* toggleTheme calls, at most two, oldest first
  sortLog         \* the last sortCards call, if any: its tab, its order and
                  \* the item sequence it read from the cache

\* the request list of main, in the order given to Promise.all
Resources ==
  <<"data/ai_news.json", "data/ai_tools.json", "data/dev_tips.json", "data/arxiv.json",
    "data/huggingface.json", "data/github_trending.json", "data/stats.json",
    "data/history.json">>

Obj(fields) == [t |-> "object"] @@ fields

Text1(c) == Str(<<c>>)

\* An ai_news.json as the ingestion job may leave it: payload texts are
\* untrusted and may hold markup characters.
NewsFile ==
  Obj([updated |-> Text1("8"),
       articles |-> Arr(<<
         [link |-> Text1("u"), title |-> Str(<<"<", "b", ">">>), source |-> Undef,
          published |-> Text1("3"), summary |-> Str(<<"a", "&", "b">>),
          category |-> Text1("x")],
         [link |-> Text1("v"), title |-> Text1("t"), source |-> Text1("s"),
          published |-> Text1("9"), summary |-> Undef, category |-> Undef]>>)])

ToolsFile ==
  Obj([tools |-> Arr(<<
         [icon |-> Undef, name |-> Text1("n"), category |-> Text1("x"),
          difficulty |-> Str(<<"rumen">>), description |-> Text1("d"),
          link |-> Text1("u")],
         [icon |-> Text1("i"), name |-> Text1("m"), category |-> Text1("y"),
          difficulty |-> Str(<<"gaoji">>), description |-> Undef,
          link |-> Text1("v")]>>)])

TipsFile ==
  Obj([tips |-> Arr(<<
         [icon |-> Undef, title |-> Text1("t"), description |-> Text1("d"),
          category |-> Text1("x"), difficulty |-> Str(<<"jinjie">>),
          tags |-> Arr(<<Text1("a"), Text1("b"), Text1("c"), Text1("d")>>),
          link |-> Undef]>>)])

ArxivFile ==
  Obj([papers |-> Arr(<<
         [link |-> Text1("u"), title |-> Text1("t"),
          authors |-> Arr(<<Text1("a"), Text1("b"), Text1("c"), Text1("d")>>),
          published |-> Text1("8"), summary |-> Text1("s"),
          categories |-> Arr(<<Text1("x")>>)]>>)])

HfFile ==
  Obj([models |-> Arr(<<
         [link |-> Text1("u"), name |-> Text1("n"), author |-> Text1("a"),
          updated |-> Text1("x"), tags |-> Undef, downloads |-> Num(1500),
          likes |-> Num(7)]>>)])

GithubFile ==
  Obj([repositories |-> Arr(<<
         [link |-> Text1("u"), name |-> Text1("n"), description |-> Text1("d"),
          language |-> Str(<<"G", "o">>), stars |-> Num(2500000),
          stars_today |-> Str(<<"<", "i", ">">>)],
         [link |-> Text1("v"), name |-> Text1("m"), description |-> Undef,
          language |-> Undef, stars |-> Num(5), stars_today |-> Num(2)]>>)])

StatsFile ==
  Obj([updated |-> Text1("9"),
       counts |-> Obj([rss_news |-> Num(2), ai_tools |-> Num(2), dev_tips |-> Num(1),
                       github_trending |-> Num(2), huggingface |-> Num(1),
                       arxiv |-> Undef]),
       top_tags |-> Arr(<<[tag |-> Text1("a"), count |-> Num(2)]>>)])

HistoryFile ==
  Obj([dates |-> Arr(<<Text1("8"), Text1("9")>>),
       rss_news |-> Arr(<<Num(1), Num(2)>>),
       huggingface |-> Arr(<<Num(1), Num(1)>>),
       github_trending |-> Arr(<<Num(2), Num(2)>>),
       arxiv |-> Arr(<<Num(0), Num(1)>>)])

\* what the server holds for each position of the request list
ServerFiles ==
  <<NewsFile, ToolsFile, TipsFile, ArxivFile, HfFile, GithubFile, StatsFile, HistoryFile>>

\* The outcomes of fetch(path) for position i: the request fails, the status
\* is not ok (body: the error page), the body is no JSON, or the file arrives.
Responses(i) ==
  {[kind |-> "network-error", ok |-> FALSE, body |-> Undef],
   [kind |-> "http", ok |-> FALSE, body |-> Obj([error |-> Text1("e")])],
   [kind |-> "http", ok |-> TRUE, body |-> [t |-> "syntax-error"]],
   [kind |-> "http", ok |-> TRUE, body |-> ServerFiles[i]]}

\* the response is one whose parsed JSON loadJSON is to return
Succeeds(resp) == resp.kind = "http" /\ resp.ok /\ resp.body.t # "syntax-error"

\* loadJSON without the test of resp.ok: the body of an error response is
\* parsed and returned
loadJSONUnchecked(resp) ==
  IF resp.kind = "network-error" THEN Null
  ELSE IF resp.body.t = "syntax-error" THEN Null
  ELSE resp.body

\* loadJSON(path), given the response of its fetch: every failure is caught
\* and gives null
loadJSON(resp) ==
  IF resp.kind = "network-error" THEN Null
  ELSE IF ~resp.ok THEN Null
  ELSE IF resp.body.t = "syntax-error" THEN Null
  ELSE resp.body

Idle == [status |-> "idle", ok |-> FALSE, result |-> Undef]

Pending == [status |-> "pending", ok |-> FALSE, result |-> Undef]

\* every promise given to Promise.all has settled
AllSettled == \A i \in 1..Len(Resources) : fetches[i].status = "settled"

\* the object literal main assigns to window.__appData, from the results of
\* Promise.all in request order
CacheOf(data) ==
  Obj([news |-> data[1], tools |-> data[2], tips |-> data[3], arxiv |-> data[4],
       hf |-> data[5], github |-> data[6], stats |-> data[7], history |-> data[8]])

\* x?.field
OptField(x, field) == IF Nullish(x) THEN Undef ELSE x[field]

\* o, then F unless o threw
Then(o, F(_)) == IF o.threw THEN o ELSE F(o.dom)

\* the render calls of main's try block, in order; a throw skips the rest
RenderAll(data, d) ==
  LET updatedTime == Or(OptField(data[7], "updated"),
                        Or(OptField(data[1], "updated"), Str(<<>>)))
      o1 == renderUpdatedTime(updatedTime, d)
      o2 == Then(o1, LAMBDA x : renderStats(data[7], x))
      o3 == Then(o2, LAMBDA x : renderAINews(data[1], x))
      o4 == Then(o3, LAMBDA x : renderAITools(data[2], Undef, x))
      o5 == Then(o4, LAMBDA x : renderDevTips(data[3], Undef, x))
      o6 == Then(o5, LAMBDA x : renderArxiv(data[4], x))
      o7 == Then(o6, LAMBDA x : renderHuggingFace(data[5], x))
  IN Then(o7, LAMBDA x : renderGithubTrending(data[6], x))

Dom ==
  [innerHTML |-> innerHTML, textContent |-> textContent, counters |-> counters,
   fadeIn |-> fadeIn]

\* the last n elements of s
LastN(s, n) == IF Len(s) <= n THEN s ELSE SubSeq(s, Len(s) - n + 1, Len(s))

\* the pending redraw timers the model keeps
MaxTimers == 2

vars ==
  <<present, innerHTML, textContent, counters, fadeIn, dataTheme, localTheme,
    ChartDefined, chartVar, drawn, pc, fetches, appData, overlayVisible, clickBound,
    readyListener, timers, caught, themeHistory, sortLog>>

domVars == <<innerHTML, counters, fadeIn>>

chartVars == <<chartVar, drawn>>

themeVars == <<dataTheme, localTheme, themeHistory>>

\* The pages the model runs on: the full markup, and the markup with one
\* element missing.
Pages == {AllTargets} \cup {AllTargets \ {e} : e \in
  {"news-cards", "news-count", "stat-news", "trendChart", "themeToggle",
   "loadingOverlay"}}

\* per category renderer: its position in the request list, its container,
\* its count label, the item field of its dataset and its placeholder
CategoryRows ==
  <<[pos |-> 1, container |-> "news-cards", label |-> "news-count",
     field |-> "articles", unit |-> " articles",
     empty |-> EmptyState("newspaper", "no news data")],
    [pos |-> 2, container |-> "tools-cards", label |-> "tools-count",
     field |-> "tools", unit |-> " tools",
     empty |-> EmptyState("tools", "no tool data")],
    [pos |-> 3, container |-> "tips-cards", label |-> "tips-count",
     field |-> "tips", unit |-> " tips",
     empty |-> EmptyState("bolt", "no tip data")],
    [pos |-> 4, container |-> "arxiv-cards", label |-> "arxiv-count",
     field |-> "papers", unit |-> " papers",
     empty |-> EmptyState("page", "no paper data")],
    [pos |-> 5, container |-> "hf-cards", label |-> "hf-count",
     field |-> "models", unit |-> " models",
     empty |-> EmptyState("hugging-face", "no model data")],
    [pos |-> 6, container |-> "github-cards", label |-> "github-count",
     field |-> "repositories", unit |-> " repositories",
     empty |-> EmptyState("laptop", "no repository data")]>>

\* What the markup (index.html) puts in the count labels before any renderer
\* has run: nothing, or the zero count of each category.
MarkupLabels ==
  {[e \in CountLabels |-> <<>>],
   [e \in CountLabels |->
      CountText(0, CategoryRows[CHOOSE k \in 1..Len(CategoryRows) :
                                 CategoryRows[k].label = e].unit)]}


Init ==
  /\ present \in Pages
  /\ innerHTML = [c \in CardContainers |-> <<>>]
  /\ fadeIn = [c \in CardContainers |-> <<>>]
  /\ \E labels \in MarkupLabels :
       textContent = [e \in TextIds |-> IF e \in CountLabels THEN labels[e] ELSE <<>>]
  /\ counters = [e \in StatIds |-> NoInterval]
  /\ dataTheme = "none"
  /\ localTheme \in {"none", "light", "dark"}
  /\ ChartDefined = FALSE
  /\ chartVar = [c \in Canvases |-> "undefined"]
  /\ drawn = [c \in Canvases |-> <<>>]
  /\ pc = "ready"
  /\ fetches = [i \in 1..Len(Resources) |-> Idle]
  /\ appData = Undef
  /\ overlayVisible = FALSE
  /\ clickBound = FALSE
  /\ readyListener = FALSE
  /\ timers = 0
  /\ caught = FALSE
  /\ themeHistory = <<>>
  /\ sortLog = <<>>

\* main up to the await: the theme, the listeners, the overlay, the requests
MainStart ==
  /\ pc = "ready"
  /\ initTheme
  /\ clickBound' = ("themeToggle" \in present)
  /\ overlayVisible' = IF "loadingOverlay" \in present THEN TRUE ELSE overlayVisible
  /\ fetches' = [i \in 1..Len(Resources) |-> Pending]
  /\ pc' = "loading"
  /\ UNCHANGED <<present, sortLog, domVars, ChartDefined, chartVars, appData,
                 readyListener, timers, caught, themeHistory, sortLog>>

\* the loadJSON calls that have settled with null
Failed == {i \in 1..Len(Resources) : fetches[i].status = "settled" /\ ~fetches[i].ok}

\* the failed requests the model follows in one load
MaxFailures == 1

\* the loadJSON call at position i settles
FetchSettles(i) ==
  /\ fetches[i].status = "pending"
  /\ \E resp \in Responses(i) :
       fetches' = [fetches EXCEPT ![i] =
         [status |-> "settled", ok |-> Succeeds(resp), result |-> loadJSON(resp)]]
  /\ UNCHANGED <<present, sortLog, domVars, textContent, themeVars, ChartDefined,
                 chartVars, pc, appData, overlayVisible, clickBound, readyListener,
                 timers, caught>>

\* the overlay cleared by the last statement of the try block instead of a
\* finally block
ClearOverlayInTry(threw) ==
  IF "loadingOverlay" \in present /\ ~threw THEN FALSE ELSE overlayVisible

\* the finally block of main: it runs whether or not the try block threw
ClearOverlay(threw) ==
  IF "loadingOverlay" \in present THEN FALSE ELSE overlayVisible

\* main from the await on: the cache, the renderers, the charts, catch,
\* finally, and the closing initScrollAnimations
MainResume ==
  /\ pc = "loading"
  /\ AllSettled
  /\ \E data \in {[i \in 1..Len(Resources) |-> fetches[i].result]} :
       \E o \in {RenderAll(data, Dom)} :
         \E ch \in {IF ~o.threw /\ ChartDefined
                     THEN initCharts(Charts, "main", ChartDefined, dataTheme)
                     ELSE [cs |-> Charts, threw |-> FALSE]} :
           /\ appData' = CacheOf(data)
           /\ innerHTML' = o.dom.innerHTML
           /\ fadeIn' = initScrollAnimations(o.dom).fadeIn
           /\ textContent' = o.dom.textContent
           /\ counters' = o.dom.counters
           /\ chartVar' = ch.cs.chartVar
           /\ drawn' = ch.cs.drawn
           /\ readyListener' = (~o.threw /\ ~ChartDefined)
           /\ caught' = (o.threw \/ ch.threw)
           /\ overlayVisible' = ClearOverlay(o.threw \/ ch.threw)
  /\ pc' = "done"
  /\ UNCHANGED <<present, sortLog, themeVars, ChartDefined, fetches, clickBound,
                 timers>>

\* window.__appData || {}, then .key
CacheField(key) == IF Truthy(appData) THEN appData[key] ELSE Undef

\* the click listener of the theme button
ThemeToggleClick ==
  /\ clickBound
  /\ toggleTheme
  /\ themeHistory' = LastN(Append(themeHistory, [attr |-> dataTheme, saved |-> localTheme]), 2)
  /\ IF Truthy(CacheField("history")) /\ Truthy(CacheField("stats"))
     THEN /\ timers < MaxTimers
          /\ timers' = timers + 1
     ELSE UNCHANGED timers
  /\ UNCHANGED <<present, sortLog, domVars, ChartDefined, chartVars, pc, fetches,
                 appData, overlayVisible, clickBound, readyListener, caught>>

\* a setTimeout callback of the click listener runs: redrawCharts
TimerFires ==
  /\ timers > 0
  /\ timers' = timers - 1
  /\ LET ch == redrawCharts(Charts, ChartDefined, dataTheme)
     IN /\ chartVar' = ch.cs.chartVar
        /\ drawn' = ch.cs.drawn
  /\ UNCHANGED <<present, sortLog, domVars, textContent, themeVars, ChartDefined,
                 pc, fetches, appData, overlayVisible, clickBound, readyListener,
                 caught>>

\* the chartjs-ready event reaches the listener main registered
DispatchReady ==
  LET ch == IF readyListener
            THEN initCharts(Charts, "chartjs-ready", TRUE, dataTheme)
            ELSE [cs |-> Charts, threw |-> FALSE]
  IN /\ chartVar' = ch.cs.chartVar
     /\ drawn' = ch.cs.drawn

\* the charting library finishes loading: Chart is defined and the page
\* dispatches chartjs-ready
ChartLibLoads ==
  /\ ~ChartDefined
  /\ ChartDefined' = TRUE
  /\ DispatchReady
  /\ UNCHANGED <<present, sortLog, domVars, textContent, themeVars, pc, fetches,
                 appData, overlayVisible, clickBound, readyListener, timers, caught>>

\* chartjs-ready is dispatched again
ChartjsReady ==
  /\ ChartDefined
  /\ readyListener
  /\ DispatchReady
  /\ UNCHANGED <<present, sortLog, domVars, textContent, themeVars, ChartDefined,
                 pc, fetches, appData, overlayVisible, clickBound, readyListener,
                 timers, caught>>

RECURSIVE TickAll(_, _)
\* the callbacks of the running animateCounter intervals, in the order they
\* were started, from row i on
TickAll(d, i) ==
  IF i > Len(StatRows) THEN d
  ELSE TickAll(IF d.counters[StatRows[i].stat].active
               THEN CounterCallback(d, StatRows[i].stat)
               ELSE d,
               i + 1)

\* 40 ms pass: every running animateCounter interval fires
CounterTick ==
  /\ \E e \in StatIds : counters[e].active
  /\ LET d == TickAll(Dom, 1)
     IN /\ textContent' = d.textContent
        /\ counters' = d.counters
  /\ UNCHANGED <<present, sortLog, innerHTML, fadeIn, themeVars, ChartDefined,
                 chartVars, pc, fetches, appData, overlayVisible, clickBound, readyListener,
                 timers, caught>>

(***************************************************************************)
(* Sort controller                                                         *)
(***************************************************************************)

RECURSIVE LocaleCompare(_, _)
\* a.localeCompare(b) for texts of digits (date texts): negative, zero or
\* positive; the empty text comes first and digits collate in numeric order
LocaleCompare(a, b) ==
  IF Len(a) = 0 /\ Len(b) = 0 THEN 0
  ELSE IF Len(a) = 0 THEN -1
  ELSE IF Len(b) = 0 THEN 1
  ELSE IF DigitValue(Head(a)) < DigitValue(Head(b)) THEN -1
  ELSE IF DigitValue(Head(a)) > DigitValue(Head(b)) THEN 1
  ELSE LocaleCompare(Tail(a), Tail(b))

\* x - y; NaN is given as 0, which is how Array.prototype.sort takes a NaN
\* comparator result
Minus(x, y) ==
  IF ToNumber(x).nan \/ ToNumber(y).nan THEN 0 ELSE ToNumber(x).n - ToNumber(y).n

\* the values of select.value the model follows
OrderDefault == Str(<<"d", "e", "f", "a", "u", "l", "t">>)

OrderAll == Str(<<"a", "l", "l">>)

OrderDate == Str(<<"d", "a", "t", "e">>)

OrderDownloads == Str(<<"d", "o", "w", "n", "l", "o", "a", "d", "s">>)

OrderLikes == Str(<<"l", "i", "k", "e", "s">>)

OrderStars == Str(<<"s", "t", "a", "r", "s">>)

OrderStarsToday == Str(<<"s", "t", "a", "r", "s", "_", "t", "o", "d", "a", "y">>)

Orders ==
  {OrderDefault, OrderAll, OrderDate, OrderDownloads, OrderLikes, OrderStars,
   OrderStarsToday}

\* the values of select.dataset.tab
Tabs == {"news", "tools", "tips", "arxiv", "hf", "github"}

\* the branches of sortCards that copy and sort: the item field of each
SortField ==
  [news |-> "articles", arxiv |-> "papers", hf |-> "models", github |-> "repositories"]

NoSort == [kind |-> "none", field |-> "none"]

\* the chain without its tests of order for the date keys: news, papers and
\* models are sorted by date whatever the order
SortKeyUntested(tab, order) ==
  CASE tab \in {"news", "arxiv"} -> [kind |-> "text", field |-> "published"]
    [] tab = "hf" -> [kind |-> "text", field |-> "updated"]
    [] tab = "github" ->
         IF StrictEq(order, OrderStars) THEN [kind |-> "number", field |-> "stars"]
         ELSE [kind |-> "number", field |-> "stars_today"]
    [] OTHER -> NoSort

\* the if / else-if chain on order within the branch of tab: which items.sort
\* call runs, if any
SortKey(tab, order) ==
  CASE tab = "news" ->
         IF StrictEq(order, OrderDate) THEN [kind |-> "text", field |-> "published"]
         ELSE NoSort
    [] tab = "arxiv" ->
         IF StrictEq(order, OrderDate) THEN [kind |-> "text", field |-> "published"]
         ELSE NoSort
    [] tab = "hf" ->
         IF StrictEq(order, OrderDate) THEN [kind |-> "text", field |-> "updated"]
         ELSE IF StrictEq(order, OrderDownloads)
         THEN [kind |-> "number", field |-> "downloads"]
         ELSE IF StrictEq(order, OrderLikes) THEN [kind |-> "number", field |-> "likes"]
         ELSE NoSort
    [] tab = "github" ->
         IF StrictEq(order, OrderStars) THEN [kind |-> "number", field |-> "stars"]
         ELSE IF StrictEq(order, OrderStarsToday)
         THEN [kind |-> "number", field |-> "stars_today"]
         ELSE NoSort
    [] OTHER -> NoSort

\* the comparators with a and b exchanged: ascending order
ComparatorAscending(key, a, b) ==
  IF key.kind = "text"
  THEN LocaleCompare(Or(a[key.field], Str(<<>>)).v, Or(b[key.field], Str(<<>>)).v)
  ELSE Minus(Or(a[key.field], Num(0)), Or(b[key.field], Num(0)))

\* the comparators of sortCards, (a, b) => ...: a negative result puts a first
Comparator(key, a, b) ==
  IF key.kind = "text"
  THEN LocaleCompare(Or(b[key.field], Str(<<>>)).v, Or(a[key.field], Str(<<>>)).v)
  ELSE Minus(Or(b[key.field], Num(0)), Or(a[key.field], Num(0)))

RECURSIVE InsertItemNoTies(_, _, _)
\* the insertion that keeps one of two items the comparator finds equal
InsertItemNoTies(s, x, key) ==
  IF Len(s) = 0 THEN <<x>>
  ELSE IF Comparator(key, x, Head(s)) < 0 THEN <<x>> \o s
  ELSE IF Comparator(key, x, Head(s)) = 0 THEN s
  ELSE <<Head(s)>> \o InsertItemNoTies(Tail(s), x, key)

RECURSIVE InsertItem(_, _, _)
\* x put into the sorted s, behind every element it does not precede
InsertItem(s, x, key) ==
  IF Len(s) = 0 THEN <<x>>
  ELSE IF Comparator(key, x, Head(s)) < 0 THEN <<x>> \o s
  ELSE <<Head(s)>> \o InsertItem(Tail(s), x, key)

RECURSIVE SortItems(_, _)
\* items.sort(comparator): Array.prototype.sort is stable
SortItems(items, key) ==
  IF Len(items) = 0 THEN <<>>
  ELSE InsertItem(SortItems(SubSeq(items, 1, Len(items) - 1), key),
                  items[Len(items)], key)

\* { ...x, [field]: items }
Spread(x, field, items) ==
  (field :> Arr(items)) @@ (IF Nullish(x) THEN [t |-> "object"] ELSE x)

\* the renderer each branch of sortCards calls
RenderTab(tab, data, order, d) ==
  CASE tab = "news" -> renderAINews(data, d)
    [] tab = "tools" -> renderAITools(data, order, d)
    [] tab = "tips" -> renderDevTips(data, order, d)
    [] tab = "arxiv" -> renderArxiv(data, d)
    [] tab = "hf" -> renderHuggingFace(data, d)
    [] tab = "github" -> renderGithubTrending(data, d)

\* sortCards(tab, order)
sortCards(tab, order) ==
  LET sortable == tab \in DOMAIN SortField
      cached == CacheField(tab)
      items == IF sortable THEN ItemsOf(cached, SortField[tab]) ELSE <<>>
      key == SortKey(tab, order)
      sorted == IF key.kind = "none" THEN items ELSE SortItems(items, key)
      data == IF sortable THEN Spread(cached, SortField[tab], sorted) ELSE cached
  IN /\ appData' = IF sortable /\ Truthy(appData)
                   THEN [appData EXCEPT ![tab] = data]
                   ELSE appData
     /\ \E o \in {RenderTab(tab, data, order, Dom)} :
          /\ innerHTML' = o.dom.innerHTML
          /\ fadeIn' = o.dom.fadeIn
          /\ textContent' = o.dom.textContent
          /\ counters' = o.dom.counters
     /\ sortLog' = <<[tab |-> tab, order |-> order, before |-> items]>>
     /\ UNCHANGED <<present, themeVars, ChartDefined, chartVars, pc,
                    fetches, overlayVisible, clickBound, readyListener, timers, caught>>

\* the change listener initSorting puts on every sort select
SortSelectChange ==
  /\ pc # "ready"
  /\ \E tab \in Tabs, order \in Orders : sortCards(tab, order)

Next ==
  \/ MainStart
  \/ \E i \in 1..Len(Resources) :
       FetchSettles(i) /\ Cardinality(Failed') <= MaxFailures
  \/ MainResume
  \/ ThemeToggleClick
  \/ TimerFires
  \/ ChartLibLoads
  \/ ChartjsReady
  \/ CounterTick

\* The page with some requests failing: at most MaxFailures of them
Spec == Init /\ [][Next]_vars

\* the control step of MainResume: main leaves the await for its return.
\* MainResume is the only action that changes pc from "loading", and it is
\* enabled exactly when pc = "loading" /\ AllSettled.
AwaitReturns == pc = "loading" /\ AllSettled /\ pc' = "done"

\* Every fetch settles and main resumes once all have: the event loop runs
\* each continuation that is ready.
FairSpec ==
  /\ Spec
  /\ WF_vars(MainStart)
  /\ WF_vars(\E i \in 1..Len(Resources) :
               FetchSettles(i) /\ Cardinality(Failed') <= MaxFailures)
  /\ WF_pc(AwaitReturns)

\* the full page, for the loader: any number of requests may fail
LoadInit == Init /\ present = AllTargets

LoadNext ==
  \/ MainStart
  \/ \E i \in 1..Len(Resources) : FetchSettles(i)
  \/ MainResume
  \/ ThemeToggleClick
  \/ TimerFires
  \/ ChartLibLoads
  \/ ChartjsReady
  \/ CounterTick

LoadSpec == LoadInit /\ [][LoadNext]_vars

\* the items a sortable dataset may hold in the sort model: per category
\* three items with distinct, equal and missing sort keys
NewsPool ==
  LET a == NewsFile.articles.v[2]
  IN <<[a EXCEPT !.title = Text1("a"), !.published = Text1("3")],
       [a EXCEPT !.title = Text1("b"), !.published = Text1("9")],
       [a EXCEPT !.title = Text1("c"), !.published = Undef]>>

ArxivPool ==
  LET p == ArxivFile.papers.v[1]
  IN <<[p EXCEPT !.title = Text1("a"), !.published = Text1("8")],
       [p EXCEPT !.title = Text1("b"), !.published = Text1("9")],
       [p EXCEPT !.title = Text1("c"), !.published = Text1("8")]>>

HfPool ==
  LET m == HfFile.models.v[1]
  IN <<[m EXCEPT !.name = Text1("a"), !.updated = Text1("3"),
                 !.downloads = Num(5), !.likes = Num(7)],
       [m EXCEPT !.name = Text1("b"), !.updated = Text1("9"),
                 !.downloads = Num(20), !.likes = Undef],
       [m EXCEPT !.name = Text1("c"), !.updated = Text1("3"),
                 !.downloads = Undef, !.likes = Num(7)]>>

GithubPool ==
  LET r == GithubFile.repositories.v[2]
  IN <<[r EXCEPT !.name = Text1("a"), !.stars = Num(5), !.stars_today = Num(2)],
       [r EXCEPT !.name = Text1("b"), !.stars = Num(20), !.stars_today = Undef],
       [r EXCEPT !.name = Text1("c"), !.stars = Num(1), !.stars_today = Num(2)]>>

SortPool == [news |-> NewsPool, arxiv |-> ArxivPool, hf |-> HfPool, github |-> GithubPool]

\* the position of each sortable dataset in the request list
SortPos == [news |-> 1, arxiv |-> 4, hf |-> 5, github |-> 6]

\* the longest item sequence of the sort model
MaxItems == 2

\* the item sequences of category tab: up to MaxItems items of its pool, in
\* any order, with repetitions
ItemSeqs(tab) ==
  {[i \in 1..Len(shape) |-> SortPool[tab][shape[i]]] :
     shape \in UNION {[1..n -> 1..Len(SortPool[tab])] : n \in 0..MaxItems}}

\* The loads of the sort model: the dataset of one sortable category is null
\* (its fetch failed) or holds one of ItemSeqs; the other sortable categories
\* hold the first item of their pool.
SortLoads ==
  UNION {{[i \in 1..Len(Resources) |->
             IF i = SortPos[tab] THEN ds
             ELSE IF \E c \in DOMAIN SortPos : SortPos[c] = i
             THEN LET c == CHOOSE c \in DOMAIN SortPos : SortPos[c] = i
                  IN Spread(ServerFiles[i], SortField[c], <<SortPool[c][1]>>)
             ELSE ServerFiles[i]] :
           ds \in {Null} \cup {Spread(ServerFiles[SortPos[tab]], SortField[tab], items) :
                                 items \in ItemSeqs(tab)}} :
         tab \in DOMAIN SortPos}

\* the page before any renderer has run, with blank labels
BlankDom ==
  [innerHTML |-> [c \in CardContainers |-> <<>>],
   fadeIn |-> [c \in CardContainers |-> <<>>],
   textContent |-> [e \in TextIds |-> <<>>],
   counters |-> [e \in StatIds |-> NoInterval]]

\* The state main leaves on the full page, in the light theme and with the
\* charting library not yet loaded, after one of SortLoads.
SortInit ==
  /\ present = AllTargets
  /\ \E data \in SortLoads :
       /\ fetches = [i \in 1..Len(Resources) |->
                       [status |-> "settled", ok |-> data[i] # Null, result |-> data[i]]]
       /\ appData = CacheOf(data)
       /\ \E o \in {RenderAll(data, BlankDom)} :
            /\ innerHTML = o.dom.innerHTML
            /\ fadeIn = initScrollAnimations(o.dom).fadeIn
            /\ textContent = [o.dom.textContent EXCEPT !["themeToggle"] = Glyph("light")]
            /\ counters = o.dom.counters
  /\ dataTheme = "light"
  /\ localTheme = "light"
  /\ ChartDefined = FALSE
  /\ chartVar = [c \in Canvases |-> "undefined"]
  /\ drawn = [c \in Canvases |-> <<>>]
  /\ pc = "done"
  /\ overlayVisible = FALSE
  /\ clickBound = TRUE
  /\ readyListener = TRUE
  /\ timers = 0
  /\ caught = FALSE
  /\ themeHistory = <<>>
  /\ sortLog = <<>>

SortNext == SortSelectChange

\* the loaded page under sort select changes
SortSpec == SortInit /\ [][SortNext]_vars

\* Element i of container c is in the viewport when the observers deliver
\* their entries: the callback of every observer observing it runs with
\* entry.isIntersecting, adds the class visible and unobserves the element
\* from its own observer.
Intersects(c, i) ==
  /\ fadeIn[c][i].observers # "none"
  /\ fadeIn' = [fadeIn EXCEPT ![c][i] =
                  [observers |-> "none", fired |-> Sum(@.fired, @.observers)]]
  /\ UNCHANGED <<present, sortLog, innerHTML, counters, textContent, themeVars,
                 ChartDefined, chartVars, pc, fetches, appData, overlayVisible,
                 clickBound, readyListener, timers, caught>>

\* the containers of the panel the scroll model shows in the viewport
Viewport == {"news-cards"}

ElementIntersects ==
  \E c \in Viewport : \E i \in 1..Len(fadeIn[c]) : Intersects(c, i)

\* the loaded page of the scroll model: MaxItems articles, one item in each
\* other sortable category
ScrollInit ==
  /\ SortInit
  /\ fetches[SortPos["news"]].result =
       Spread(ServerFiles[SortPos["news"]], SortField["news"],
              SubSeq(NewsPool, 1, MaxItems))

ScrollNext ==
  \/ SortSelectChange
  \/ ElementIntersects

\* the loaded page under sort select changes and elements scrolling into view
ScrollSpec == ScrollInit /\ [][ScrollNext]_vars

(***************************************************************************)
(* Properties                                                              *)
(***************************************************************************)

\* the cache key main gives to each position of the request list
CacheKeys == <<"news", "tools", "tips", "arxiv", "hf", "github", "stats", "history">>

\* C1: on every canvas at most one chart instance is drawn (created and not
\* destroyed), whatever sequence of initCharts, redrawCharts, chartjs-ready
\* callbacks and timer firings has run.
C1_AtMostOneLiveChart == \A c \in Canvases : Len(drawn[c]) <= 1

\* C1 witness: main drew the three charts and a redraw timer has since
\* replaced each of them.
C1_Redrawn ==
  /\ pc = "done" /\ ~caught /\ ~readyListener
  /\ \A c \in Canvases : Len(drawn[c]) = 1 /\ drawn[c][1].by = "redrawCharts"

\* C2 (as claimed): once no redraw timer is pending, every drawn chart has
\* the colours of the current data-theme attribute.
C2_ChartsFollowTheme ==
  timers = 0 =>
    \A c \in Canvases : \A i \in 1..Len(drawn[c]) :
      drawn[c][i].dark = (dataTheme = "dark")

\* C3: the load batch never aborts; every failed request gives null and every
\* successful one its parsed JSON; the cache is written only after all eight
\* requests have settled and holds, under each key, the result of the
\* request at the same position.
C3_CachePositional ==
  /\ \A i \in 1..Len(Resources) :
       fetches[i].status = "settled" =>
         fetches[i].result = IF fetches[i].ok THEN ServerFiles[i] ELSE Null
  /\ appData # Undef => AllSettled
  /\ pc = "done" =>
       /\ appData # Undef
       /\ DOMAIN appData = {"t"} \cup {CacheKeys[i] : i \in 1..Len(CacheKeys)}
       /\ \A i \in 1..Len(Resources) : appData[CacheKeys[i]] = fetches[i].result

\* C3 witness: the batch completed with some requests failed and some not.
C3_MixedLoad ==
  /\ pc = "done"
  /\ Cardinality(Failed) = 3
  /\ ~fetches[4].ok /\ fetches[5].ok

\* C4: when every fetch settles, the loading overlay is eventually cleared
\* and stays cleared, whether or not the try block of main threw.
C4_OverlayCleared == <>[](~overlayVisible)

\* C4 witness: the overlay was shown, a renderer threw inside the try block,
\* and the overlay is cleared.
C4_ClearedAfterThrow ==
  pc = "done" /\ caught /\ "loadingOverlay" \in present /\ ~overlayVisible

\* C5 (as claimed): after main has rendered a category whose dataset is null
\* or empty, its container holds the placeholder and its count label shows
\* zero.
C5_EmptyShowsZero ==
  (pc = "done" /\ ~caught) =>
    \A k \in 1..Len(CategoryRows) :
      LET row == CategoryRows[k]
      IN (row.container \in present /\ row.label \in present
          /\ Len(ItemsOf(fetches[row.pos].result, row.field)) = 0) =>
           /\ innerHTML[row.container] = row.empty
           /\ textContent[row.label] = CountText(0, row.unit)

\* the sort keys: per sortable category and order, the field sorted by and
\* whether it is a date text or a number
RecognisedKeys ==
  {[tab |-> "news", order |-> OrderDate, field |-> "published", kind |-> "text"],
   [tab |-> "arxiv", order |-> OrderDate, field |-> "published", kind |-> "text"],
   [tab |-> "hf", order |-> OrderDate, field |-> "updated", kind |-> "text"],
   [tab |-> "hf", order |-> OrderDownloads, field |-> "downloads", kind |-> "number"],
   [tab |-> "hf", order |-> OrderLikes, field |-> "likes", kind |-> "number"],
   [tab |-> "github", order |-> OrderStars, field |-> "stars", kind |-> "number"],
   [tab |-> "github", order |-> OrderStarsToday, field |-> "stars_today",
    kind |-> "number"]}

\* the keys a sortCards call sorts by (none: the order is not recognised)
KeysOf(call) == {k \in RecognisedKeys : k.tab = call.tab /\ k.order = call.order}

\* the rank of an item under a key: a missing value counts as the empty text
\* (before every date) or as zero; date texts have one width here, so their
\* order is the order of their numbers
KeyRank(item, k) ==
  IF k.kind = "text"
  THEN IF Truthy(item[k.field]) THEN DigitsValue(item[k.field].v) ELSE -1
  ELSE IF Truthy(item[k.field]) THEN item[k.field].v ELSE 0

Descending(items, k) ==
  \A i \in 1..(Len(items) - 1) : KeyRank(items[i], k) >= KeyRank(items[i + 1], k)

\* s and t hold the same items, each as often
SameItems(s, t) ==
  /\ Len(s) = Len(t)
  /\ \A i \in 1..Len(s) :
       Cardinality({j \in 1..Len(s) : s[j] = s[i]})
         = Cardinality({j \in 1..Len(t) : t[j] = s[i]})

\* the container of category tab shows items, in their order
Rendered(tab, items) ==
  LET row == CategoryRows[CHOOSE k \in 1..Len(CategoryRows) :
                            CategoryRows[k].pos = SortPos[tab]]
  IN innerHTML[row.container] =
       IF Len(items) = 0 THEN row.empty
       ELSE [i \in 1..Len(items) |->
               CASE tab = "news" -> NewsCard(items[i])
                 [] tab = "arxiv" -> PaperCard(items[i])
                 [] tab = "hf" -> ModelCard(items[i])
                 [] tab = "github" -> RepoCard(items[i])]

\* the items the cache holds for a sortable category
CachedItems(tab) == ItemsOf(CacheField(tab), SortField[tab])

\* the items of a sortable category in the order of the last load
SourceItems(tab) == ItemsOf(fetches[SortPos[tab]].result, SortField[tab])

\* C6: after sortCards on a sortable category the cache holds the items it
\* held before; under a recognised key they are in descending order of that
\* key, under any other order they are in the order they had before the call;
\* the category is rendered in the cached order.
C6_SortedDescending ==
  \A n \in 1..Len(sortLog) :
    sortLog[n].tab \in DOMAIN SortField =>
      LET items == CachedItems(sortLog[n].tab)
      IN /\ SameItems(items, sortLog[n].before)
         /\ \A k \in KeysOf(sortLog[n]) : Descending(items, k)
         /\ KeysOf(sortLog[n]) = {} => items = sortLog[n].before
         /\ Rendered(sortLog[n].tab, items)

\* C6 witness: repositories cached with 5 and 20 stars, in that order, have
\* been sorted by stars.
C6_StarsSorted ==
  /\ sortLog = <<[tab |-> "github", order |-> OrderStars,
                  before |-> <<GithubPool[1], GithubPool[2]>>]>>
  /\ CachedItems("github") = <<GithubPool[2], GithubPool[1]>>

\* C7 (as claimed): after sortCards with an unrecognised order the category
\* is cached and rendered in the source order of the last load.
C7_DefaultRestoresSource ==
  \A n \in 1..Len(sortLog) :
    (sortLog[n].tab \in DOMAIN SortField /\ KeysOf(sortLog[n]) = {}) =>
      /\ CachedItems(sortLog[n].tab) = SourceItems(sortLog[n].tab)
      /\ Rendered(sortLog[n].tab, SourceItems(sortLog[n].tab))

\* C7 (amended): after sortCards with an unrecognised order the category is
\* cached and rendered in the order the cache held before the call.
C7_DefaultKeepsCachedOrder ==
  \A n \in 1..Len(sortLog) :
    (sortLog[n].tab \in DOMAIN SortField /\ KeysOf(sortLog[n]) = {}) =>
      /\ CachedItems(sortLog[n].tab) = sortLog[n].before
      /\ Rendered(sortLog[n].tab, sortLog[n].before)

\* C7 witness: the news were loaded oldest first, sorted by date, and the
\* default order was then chosen: the cache keeps the newest first.
C7_DefaultAfterDateSort ==
  /\ SourceItems("news") = <<NewsPool[1], NewsPool[2]>>
  /\ sortLog = <<[tab |-> "news", order |-> OrderDefault,
                  before |-> <<NewsPool[2], NewsPool[1]>>]>>
  /\ CachedItems("news") = <<NewsPool[2], NewsPool[1]>>

\* C8 (as claimed): whatever elements the page lacks, no render or chart
\* function throws in main, and every category whose container is there has
\* been rendered.
C8_AbsentTargetsSkipped ==
  /\ ~caught
  /\ pc = "done" =>
       \A k \in 1..Len(CategoryRows) :
         CategoryRows[k].container \in present =>
           innerHTML[CategoryRows[k].container] # <<>>

\* the interpolations of the card templates that take no payload value
FixedSlots == {"empty-state-icon", "empty-state-text", "difficulty-class", "lang-color",
               "et-al"}

\* a text as escHtml leaves it: no < > or " in it
Escaped(text) == \A i \in 1..Len(text) : text[i] \notin {"<", ">", "\""}

\* C9 (as claimed): every payload value in the rendered markup went through
\* escHtml.
C9_PayloadEscaped ==
  \A c \in CardContainers : \A e \in 1..Len(innerHTML[c]) :
    \A f \in 1..Len(innerHTML[c][e].frags) :
      innerHTML[c][e].frags[f].slot \notin FixedSlots =>
        Escaped(innerHTML[c][e].frags[f].text)

FilterRows ==
  <<[tab |-> "tools", field |-> "tools", by |-> "category",
     container |-> "tools-cards", label |-> "tools-count", unit |-> " tools"],
    [tab |-> "tips", field |-> "tips", by |-> "difficulty",
     container |-> "tips-cards", label |-> "tips-count", unit |-> " tips"]>>

\* the cards of all cached items of a filtered category
AllCards(row) ==
  LET items == ItemsOf(CacheField(row.tab), row.field)
  IN [i \in 1..Len(items) |->
        IF row.tab = "tools" THEN ToolCard(items[i]) ELSE TipCard(items[i])]

\* C11 (as claimed): after sortCards on tools or tips with a filter value that
\* is not "all" and is the category (difficulty) of no cached item, the
\* container shows every cached item and the count label their number.
C11_UnknownFilterShowsAll ==
  \A n \in 1..Len(sortLog) : \A k \in 1..Len(FilterRows) :
    LET row == FilterRows[k]
        items == ItemsOf(CacheField(row.tab), row.field)
    IN (/\ sortLog[n].tab = row.tab
        /\ ~StrictEq(sortLog[n].order, OrderAll)
        /\ Len(items) > 0
        /\ \A i \in 1..Len(items) : ~StrictEq(items[i][row.by], sortLog[n].order)) =>
         /\ innerHTML[row.container] = AllCards(row)
         /\ textContent[row.label] = CountText(Len(items), row.unit)

\* C13: once main has filled the cache, whatever sortCards calls follow, the
\* cache has the keys main gave it, the items cached for each sortable
\* category are the loaded ones (each as often, in some order), and the
\* tools, tips, stats and history entries are the loaded values.
C13_CacheKeepsItems ==
  (pc = "done" /\ Truthy(appData)) =>
    /\ DOMAIN appData = {"t"} \cup {CacheKeys[i] : i \in 1..Len(CacheKeys)}
    /\ \A tab \in DOMAIN SortField : SameItems(CachedItems(tab), SourceItems(tab))
    /\ \A i \in {2, 3, 7, 8} : appData[CacheKeys[i]] = fetches[i].result

\* C13 witness: after a sortCards call the models are cached in another
\* order than the loaded one.
C13_ModelsReordered ==
  /\ Len(sortLog) = 1
  /\ SourceItems("hf") = <<HfPool[1], HfPool[2]>>
  /\ CachedItems("hf") = <<HfPool[2], HfPool[1]>>

\* C14 (as claimed): no step constructs a chart while Chart is undefined: when
\* a timer of the click listener fires, redrawCharts does not reach new Chart
\* without the charting library (which would be a ReferenceError).
C14_ChartsNeedLibrary ==
  [][TimerFires => ~redrawCharts(Charts, ChartDefined, dataTheme).threw]_vars

\* C12 (as claimed): for every fade-in element the visibility callback has
\* run at most once, and an element for which it has run is observed by no
\* observer.
C12_FiresOncePerElement ==
  \A c \in CardContainers : \A i \in 1..Len(fadeIn[c]) :
    /\ fadeIn[c][i].fired # "many"
    /\ fadeIn[c][i].fired = "one" => fadeIn[c][i].observers = "none"
====
